---- MODULE Spec2Model ----
(***************************************************************************)
(* Dev pod manager (pkg/devspace/devpod/manager.go) and port forwarding    *)
(* controller (pkg/devspace/services/portforwarding/portforwarding.go).    *)
(*                                                                         *)
(* Spec   : the manager. Threads are the external callers (each makes one  *)
(*          call of Start, Stop, Reset, Wait or StartMultiple), the        *)
(*          members StartMultiple spawns and the restart goroutine that    *)
(*          Start spawns per session.                                      *)
(***************************************************************************)
EXTENDS Integers, FiniteSets, Sequences, TLC

\* Bound: the calls made plus the sessions newDevPod() creates in one behaviour.
MaxLoad == 4

\* With one call made, the sessions a behaviour may create.
MaxSessions == MaxLoad - 1

Names == {"a", "b"}                  \* ctx.Config.Config().Dev: the configured dev pods
Unconfigured == "x"                  \* a name a selection may hold that is not configured
\* The selections StartMultiple is called with: every set of configured names,
\* an unconfigured name alone and beside a configured one.
Selections == (SUBSET Names) \cup {{Unconfigured}, {"a", Unconfigured}}
CallerIds == 1..3
Sessions == 1..MaxSessions
NoPod == 0                           \* the nil *devPod
Free == <<"free", "", 0>>            \* an unlocked mutex

Caller(i) == <<"c", "", i>>
Member(n) == <<"m", n, 0>>
Watcher(s) == <<"w", "", s>>
Callers == {Caller(i) : i \in CallerIds}
Members == {Member(n) : n \in Names}
Watchers == {Watcher(s) : s \in Sessions}
Threads == Callers \cup Members \cup Watchers
Kind(t) == t[1]

VARIABLES
    devPods,    \* d.devPods: name -> session or NoPod
    sName,      \* session -> the name it was created for
    sPhase,     \* session -> "none" | "new" | "running" | "stopping" | "failed" | "done"
    sErr,       \* session -> terminal error, read after Done: "nil" | "lost" | "other"
    sCtx,       \* session -> the context its Start was called with
    nameLock,   \* lockFactory.GetLock(name): name -> holder
    mapLock,    \* d.mapLock: holder
    rootDone,   \* the callers' context is cancelled
    tombErr,    \* StartMultiple's tomb: the first error recorded
    tombDying,  \* StartMultiple's tomb: killed, its context is cancelled
    smUsed,     \* StartMultiple has been called
    smSel,      \* StartMultiple's devPods argument
    smOrder,    \* the members in the order they returned
    pc, op, arg, tctx, dpLocal, ret,   \* per thread
    waitSet,    \* Wait's snapshot, per caller: the sessions still to wait for
    revert      \* Reset, per caller: what became of the RevertReplacePod call

VARIABLES
    mappings,   \* devPod.Forward: the forward port mappings
    configSet,  \* ctx, ctx.Config and ctx.Config.Config() are not nil
    containers, \* the number of dev containers of the dev pod
    podReverse, \* len(devPod.PortMappingsReverse) > 0
    pfCtx,      \* ctx.Context is cancelled
    callPc,     \* StartPortForwarding: "idle" | "waiting" | "returned"
    callRet,    \* what StartPortForwarding returned
    pending,    \* initDoneArray: the sets StartPortForwarding still waits for
    initDone,   \* the sets whose initDone channel is closed
    ppc,        \* per runner (the member of the forward set, the watchers)
    aRet,       \* per runner: what its last startForwarding returned
    aCause,     \* per runner: how its last startForwarding ended
    aFw,        \* per runner: the forwarder its startForwarding created
    memRet,     \* what startPortForwardingWithHooks returned
    revPc,      \* per reverse set: "off" | "hook" | "attempt" | "ret" | "closed" | "done"
    revRet,     \* per reverse set: what startReversePortForwardingWithHooks returned
    revCause,   \* per reverse set: how its startReversePortForwarding ended
    fwGo,       \* per forwarder: the goroutine running ForwardPorts
    fwReady,    \* per forwarder: readyChan is closed
    fwClosed,   \* per forwarder: pf.Close() was called
    startedLog, \* the forwarders "Port forwarding started" was logged for
    stoppedLog, \* how often "Stopped port forwarding" was logged
    restartLog, \* per watcher: how often "Portforwarding restarting" was logged
    restartHooks, \* per watcher: restart hook runs for the error of the forwarder
    lastHook,   \* per watcher: "none", or how its last restart hook run ended
    stopHooks,  \* how often the stop hooks ran
    errorHooks  \* how often the member ran the error hooks

VARIABLES
    lgLevel,    \* prefixLogger.level
    lgStamps,   \* os.Getenv(DevSpaceLogTimestamps) == "true"
    lgM,        \* prefixLogger.m: the goroutine that holds it, or "none"
    lgPc,       \* per goroutine: where it is in its call
    lgOp,       \* per goroutine: the method it has called
    lgArg,      \* per goroutine: the level argument of the method, 0 when it has none
    lgOut       \* per goroutine: what its last write did with the message

logVars == <<lgLevel, lgStamps, lgM, lgPc, lgOp, lgArg, lgOut>>

pfVars == <<mappings, configSet, containers, podReverse, pfCtx, callPc, callRet,
            pending, initDone, ppc, aRet, aCause, aFw, memRet, revPc, revRet, revCause,
            fwGo, fwReady, fwClosed, startedLog, stoppedLog, restartLog, restartHooks,
            lastHook, stopHooks, errorHooks>>

\* What the watchers log and the hooks the watchers and the member run.
pfLogs == <<restartLog, restartHooks, lastHook, stopHooks, errorHooks>>

mgrVars == <<devPods, sName, sPhase, sErr, sCtx, nameLock, mapLock, rootDone,
             tombErr, tombDying, smUsed, smSel, smOrder, pc, op, arg, tctx, dpLocal,
             ret, waitSet, revert>>

vars == <<mgrVars, pfVars, logVars>>

----------------------------------------------------------------------------
(* Session (devPod), lock factory, tomb: collaborators *)

\* devPod.Alive(): Done() has not fired.
Alive(s) == sPhase[s] # "done"

\* devPod.Done() has fired.
Done(s) == sPhase[s] = "done"

\* ctx.IsDone(): the root context, or the context of StartMultiple's tomb, which
\* is cancelled with its parent and when the tomb is killed.
IsDone(c) == IF c = "root" THEN rootDone ELSE rootDone \/ tombDying

\* tomb: the first non-nil error wins.
TombRecord(old, new) == IF old = "nil" THEN new ELSE old

\* devPod.Stop(): cancel the session; a session that has ended, or is ending
\* after a failed start, is left as it is.
SessionStop(ph) == IF ph = "running" THEN "stopping" ELSE ph

\* The terminal errors a session can end with: a stopped session ends cleanly,
\* a session whose start failed ends with that error, a running session ends
\* because a task of its tree failed, with a lost connection or another error.
TerminalErrors(ph) ==
    CASE ph = "stopping" -> {"nil"}
      [] ph = "failed" -> {"other"}
      [] OTHER -> {"lost", "other"}

----------------------------------------------------------------------------
(* Manager *)

Created == {s \in Sessions : sPhase[s] # "none"}
\* The Start calls between the per-name lock and the insertion of their session.
InFlight == {t \in Threads : pc[t] \in {"s_read", "s_alive", "s_insert"}}

\* Mutant of Skipped: the test for an empty selection left out.
SkippedNoEmptyTest(sel, n) == n \notin sel

\* StartMultiple: len(devPods) > 0 && !Contains(devPods, devPodName) -> continue
Skipped(sel, n) == Cardinality(sel) > 0 /\ n \notin sel
Targets(sel) == {n \in Names : ~Skipped(sel, n)}

\* Mutants of AlreadyExists: the liveness test inverted; the test left out.
AlreadyExistsInverted(dp) == dp # NoPod /\ ~Alive(dp)
AlreadyExistsNever(dp) == FALSE

\* Start: dp != nil && dp.Alive()
AlreadyExists(dp) == dp # NoPod /\ Alive(dp)

\* restart goroutine: the session ended because of a lost connection
LostConnection(e) == e = "lost"

\* Mutant of AfterAttempt: the loop gives up after the first failed attempt.
AfterAttemptNoRetry(err, ctxDone) ==
    IF err # "nil"
    THEN IF ctxDone THEN "w_exit_ctx" ELSE "w_exit_conflict"
    ELSE "w_exit_started"

\* restart goroutine, after err = d.Start(...): where the loop goes.
AfterAttempt(err, ctxDone) ==
    IF err # "nil"
    THEN IF ctxDone THEN "w_exit_ctx"
         ELSE IF err = "Conflict" THEN "w_exit_conflict"
         ELSE "w_sleep"
    ELSE "w_exit_started"

\* Where a thread continues when its Start call returns: a caller has
\* returned, a member of StartMultiple's tomb returns the result to the tomb,
\* which has still to record it, a restart goroutine has the error in err and
\* goes on to look at it.
AfterStart(t) ==
    CASE Kind(t) = "c" -> "returned"
      [] Kind(t) = "m" -> "m_ret"
      [] OTHER -> "w_ret"

\* The tomb records that a member returned r: a non-nil r kills the tomb, the
\* first one being its error.
TombAfter(n, r) ==
    /\ tombErr' = (IF r = "nil" THEN tombErr ELSE TombRecord(tombErr, r))
    /\ tombDying' = (tombDying \/ r # "nil")
    /\ smOrder' = Append(smOrder, n)

\* Mutant of Unlock: the deferred unlock does not run.
UnlockSkipped(locks, n) == locks

\* Start, Stop, Reset: defer lock.Unlock() runs on every return.
Unlock(locks, n) == [locks EXCEPT ![n] = Free]

MgrInit ==
    /\ devPods = [n \in Names |-> NoPod]
    /\ sName = [s \in Sessions |-> "a"]
    /\ sPhase = [s \in Sessions |-> "none"]
    /\ sErr = [s \in Sessions |-> "nil"]
    /\ sCtx = [s \in Sessions |-> "root"]
    /\ nameLock = [n \in Names |-> Free]
    /\ mapLock = Free
    /\ rootDone = FALSE
    /\ tombErr = "nil"
    /\ tombDying = FALSE
    /\ smUsed = FALSE
    /\ smSel = {}
    /\ smOrder = <<>>
    /\ pc = [t \in Threads |-> IF Kind(t) = "c" THEN "idle" ELSE "off"]
    /\ op = [t \in Callers |-> "none"]
    /\ arg = [t \in Threads |-> "a"]
    /\ tctx = [t \in Threads |-> "root"]
    /\ dpLocal = [t \in Threads |-> NoPod]
    /\ ret = [t \in Threads |-> "none"]
    /\ waitSet = [t \in Callers |-> {}]
    /\ revert = [t \in Callers |-> "none"]

\* The calls made so far.
Called == {t \in Callers : pc[t] # "idle"}

\* The size of a behaviour: the calls made and the sessions created, a Start
\* call that has the per-name lock counting as the session it may create.
Load == Cardinality(Called) + Cardinality(Created) + Cardinality(InFlight)

\* There is room for k more calls or sessions.
Room(k) == Load + k <= MaxLoad

\* There is room for one more session.
Budget == Room(1)

\* The callers are interchangeable: caller i makes its call after caller i-1.
MayCall(t) ==
    /\ pc[t] = "idle"
    /\ \A i \in CallerIds : i < t[3] => pc[Caller(i)] # "idle"
    /\ Room(1)

\* A caller calls Start(ctx, devPodConfig) with the root context:
\* lock := d.lockFactory.GetLock(name); lock.Lock()
CallStart(t, n) ==
    /\ MayCall(t)
    /\ nameLock[n] = Free
    /\ Room(2)
    /\ nameLock' = [nameLock EXCEPT ![n] = t]
    /\ pc' = [pc EXCEPT ![t] = "s_read"]
    /\ op' = [op EXCEPT ![t] = "Start"]
    /\ arg' = [arg EXCEPT ![t] = n]
    /\ UNCHANGED <<pfVars, logVars, revert, devPods, sName, sPhase, sErr, sCtx, mapLock, rootDone,
                   tombErr, tombDying, smUsed, smSel, smOrder, tctx, dpLocal, ret,
                   waitSet>>

\* Start: lock := d.lockFactory.GetLock(name); lock.Lock()
StartLock(t) ==
    /\ pc[t] = "start"
    /\ nameLock[arg[t]] = Free
    /\ Budget
    /\ nameLock' = [nameLock EXCEPT ![arg[t]] = t]
    /\ pc' = [pc EXCEPT ![t] = "s_read"]
    /\ UNCHANGED <<pfVars, logVars, revert, devPods, sName, sPhase, sErr, sCtx, mapLock, rootDone,
                   tombErr, tombDying, smUsed, smSel, smOrder, op, arg, tctx, dpLocal, ret,
                   waitSet>>

\* Start: d.mapLock.Lock(); dp = d.devPods[name]; d.mapLock.Unlock()
StartRead(t) ==
    /\ pc[t] = "s_read"
    /\ mapLock = Free
    /\ dpLocal' = [dpLocal EXCEPT ![t] = devPods[arg[t]]]
    /\ pc' = [pc EXCEPT ![t] = "s_alive"]
    /\ UNCHANGED <<pfVars, logVars, revert, devPods, sName, sPhase, sErr, sCtx, nameLock, mapLock,
                   rootDone, tombErr, tombDying, smUsed, smSel, smOrder, op, arg, tctx, ret,
                   waitSet>>

\* Start: if dp != nil && dp.Alive() { return DevPodAlreadyExists{} }; the
\* deferred unlock of the name runs. Otherwise the call goes on to the insertion.
StartAlive(t) ==
    /\ pc[t] = "s_alive"
    /\ IF AlreadyExists(dpLocal[t])
       THEN /\ ret' = [ret EXCEPT ![t] = "Conflict"]
            /\ nameLock' = Unlock(nameLock, arg[t])
            /\ pc' = [pc EXCEPT ![t] = AfterStart(t)]
            /\ dpLocal' = [dpLocal EXCEPT ![t] = NoPod]
       ELSE /\ pc' = [pc EXCEPT ![t] = "s_insert"]
            /\ UNCHANGED <<ret, nameLock, dpLocal>>
    /\ UNCHANGED <<pfVars, logVars, revert, devPods, sName, sPhase, sErr, sCtx, mapLock, rootDone,
                   tombErr, tombDying, smUsed, smSel, smOrder, op, arg, tctx, waitSet>>

\* Start: dp = newDevPod(); d.mapLock.Lock(); d.devPods[name] = dp;
\* d.mapLock.Unlock(). The call waits here while another call holds mapLock.
StartInsert(t) ==
    /\ pc[t] = "s_insert"
    /\ mapLock = Free
    /\ LET s == Cardinality(Created) + 1 IN
        /\ s \in Sessions
        /\ devPods' = [devPods EXCEPT ![arg[t]] = s]
        /\ sName' = [sName EXCEPT ![s] = arg[t]]
        /\ sPhase' = [sPhase EXCEPT ![s] = "new"]
        /\ sCtx' = [sCtx EXCEPT ![s] = tctx[t]]
        /\ dpLocal' = [dpLocal EXCEPT ![t] = s]
    /\ pc' = [pc EXCEPT ![t] = "s_dpstart"]
    /\ UNCHANGED <<pfVars, logVars, revert, sErr, nameLock, mapLock, rootDone, tombErr, tombDying,
                   smUsed, smSel, smOrder, op, arg, tctx, ret, waitSet>>

\* Start: err := dp.Start(...); if err != nil { return err }
StartFail(t) ==
    /\ pc[t] = "s_dpstart"
    /\ sPhase' = [sPhase EXCEPT ![dpLocal[t]] = "failed"]
    /\ ret' = [ret EXCEPT ![t] = "StartErr"]
    /\ nameLock' = Unlock(nameLock, arg[t])
    /\ pc' = [pc EXCEPT ![t] = AfterStart(t)]
    /\ dpLocal' = [dpLocal EXCEPT ![t] = NoPod]
    /\ UNCHANGED <<pfVars, logVars, revert, devPods, sName, sErr, sCtx, mapLock, rootDone, tombErr,
                   tombDying, smUsed, smSel, smOrder, op, arg, tctx, waitSet>>

\* Start: dp.Start succeeded; go func() { <-dp.Done() ... }(); return nil
StartOk(t) ==
    /\ pc[t] = "s_dpstart"
    /\ sPhase' = [sPhase EXCEPT ![dpLocal[t]] = "running"]
    /\ ret' = [ret EXCEPT ![t] = "nil"]
    /\ nameLock' = Unlock(nameLock, arg[t])
    /\ LET w == Watcher(dpLocal[t]) IN
        /\ pc' = [pc EXCEPT ![t] = AfterStart(t), ![w] = "w_done"]
        /\ arg' = [arg EXCEPT ![w] = arg[t]]
        /\ tctx' = [tctx EXCEPT ![w] = tctx[t]]
    /\ dpLocal' = [dpLocal EXCEPT ![t] = NoPod]
    /\ UNCHANGED <<pfVars, logVars, revert, devPods, sName, sErr, sCtx, mapLock, rootDone, tombErr,
                   tombDying, smUsed, smSel, smOrder, op, waitSet>>

\* The session ends: its task tree has joined and Done() fires with a terminal error.
SessionDone(s, e) ==
    /\ sPhase[s] \in {"running", "stopping", "failed"}
    /\ e \in TerminalErrors(sPhase[s])
    /\ sPhase' = [sPhase EXCEPT ![s] = "done"]
    /\ sErr' = [sErr EXCEPT ![s] = e]
    /\ UNCHANGED <<pfVars, logVars, revert, devPods, sName, sCtx, nameLock, mapLock, rootDone, tombErr,
                   tombDying, smUsed, smSel, smOrder, pc, op, arg, tctx, dpLocal, ret, waitSet>>

\* The context the callers pass is cancelled. Only the restart goroutines read
\* it, so the cancellation is taken while one of them runs.
CancelRoot ==
    /\ ~rootDone
    /\ \E w \in Watchers : pc[w] \in {"w_done", "w_sleep", "start", "s_read", "s_alive",
                                      "s_insert", "s_dpstart", "w_ret"}
    /\ rootDone' = TRUE
    /\ UNCHANGED <<pfVars, logVars, revert, devPods, sName, sPhase, sErr, sCtx, nameLock, mapLock, tombErr,
                   tombDying, smUsed, smSel, smOrder, pc, op, arg, tctx, dpLocal, ret, waitSet>>

\* Mutant of Restarts: every terminal error restarts the session.
RestartsAnyError(ctxDone, e) == ~ctxDone

\* restart goroutine: after <-dp.Done(), whether to call Start again:
\* not when originalContext.IsDone(), and only for DevPodLostConnection.
Restarts(ctxDone, e) == ~ctxDone /\ LostConnection(e)

\* restart goroutine: <-dp.Done(); if originalContext.IsDone() { return };
\* if _, ok := dp.Err().(DevPodLostConnection); ok { for { d.Start(...) ... } }
WatchDone(s) ==
    LET w == Watcher(s) IN
    /\ pc[w] = "w_done"
    /\ Done(s)
    /\ pc' = [pc EXCEPT ![w] = IF Restarts(IsDone(tctx[w]), sErr[s])
                                 THEN "start"
                                 ELSE IF IsDone(tctx[w]) THEN "w_exit_ctx"
                                 ELSE "w_exit_err"]
    /\ UNCHANGED <<pfVars, logVars, revert, devPods, sName, sPhase, sErr, sCtx, nameLock, mapLock, rootDone,
                   tombErr, tombDying, smUsed, smSel, smOrder, op, arg, tctx, dpLocal, ret,
                   waitSet>>

\* restart goroutine: err = d.Start(...) has returned; if err != nil
\* { if originalContext.IsDone() { return } else if DevPodAlreadyExists
\* { return }; ...; time.Sleep } else { return }
WatchAfterStart(s) ==
    LET w == Watcher(s) IN
    /\ pc[w] = "w_ret"
    /\ pc' = [pc EXCEPT ![w] = AfterAttempt(ret[w], IsDone(tctx[w]))]
    /\ UNCHANGED <<pfVars, logVars, revert, devPods, sName, sPhase, sErr, sCtx, nameLock, mapLock, rootDone,
                   tombErr, tombDying, smUsed, smSel, smOrder, op, arg, tctx, dpLocal, ret,
                   waitSet>>

\* restart goroutine: time.Sleep(time.Second * 10); continue
WatchWake(s) ==
    LET w == Watcher(s) IN
    /\ pc[w] = "w_sleep"
    /\ pc' = [pc EXCEPT ![w] = "start"]
    /\ UNCHANGED <<pfVars, logVars, revert, devPods, sName, sPhase, sErr, sCtx, nameLock, mapLock, rootDone,
                   tombErr, tombDying, smUsed, smSel, smOrder, op, arg, tctx, dpLocal, ret,
                   waitSet>>

\* A caller calls Stop(name) or Reset(ctx, name):
\* lock := d.lockFactory.GetLock(name); lock.Lock()
CallStop(t, o, n) ==
    /\ o \in {"Stop", "Reset"}
    /\ MayCall(t)
    /\ nameLock[n] = Free
    /\ nameLock' = [nameLock EXCEPT ![n] = t]
    /\ pc' = [pc EXCEPT ![t] = "st_stop"]
    /\ op' = [op EXCEPT ![t] = o]
    /\ arg' = [arg EXCEPT ![t] = n]
    /\ UNCHANGED <<pfVars, logVars, revert, devPods, sName, sPhase, sErr, sCtx, mapLock, rootDone, tombErr,
                   tombDying, smUsed, smSel, smOrder, tctx, dpLocal, ret, waitSet>>

\* Reset: what RevertReplacePod was asked and answered: "notcached" when the
\* remote cache has no record (no call), else the error of the call; "none" for Stop.
RevertCall(o, ok, err) == IF o # "Reset" THEN "none" ELSE IF ok THEN err ELSE "notcached"

\* Mutant of ResetResult: the error of the reversal is dropped.
ResetResultNil(ok, err) == "nil"

\* Reset, after d.stop(name): devPod, ok := RemoteCache().GetDevPod(name);
\* if ok { _, err := RevertReplacePod(ctx, &devPod); return err }; return nil
ResetResult(ok, err) == IF ok THEN err ELSE "nil"

\* What Stop and Reset leave in ret when d.stop(name) did `did`: Stop has no
\* result, and ret records what stop did; Reset returns ResetResult.
StopResult(o, did, ok, err) == IF o = "Stop" THEN did ELSE ResetResult(ok, err)

\* Stop, Reset: d.mapLock.Lock(); d.stop(name)
\* stop: dp := d.devPods[name]; if dp == nil { return }; dp.Stop() ...
\* With no session the call returns (Reset after its look at the remote cache)
\* and the deferred unlocks run.
StopStop(t, ok, err) ==
    /\ pc[t] = "st_stop"
    /\ mapLock = Free
    /\ IF devPods[arg[t]] = NoPod
       THEN /\ ret' = [ret EXCEPT ![t] = StopResult(op[t], "absent", ok, err)]
            /\ pc' = [pc EXCEPT ![t] = "returned"]
            /\ revert' = [revert EXCEPT ![t] = RevertCall(op[t], ok, err)]
            /\ nameLock' = Unlock(nameLock, arg[t])
            /\ UNCHANGED <<sPhase, dpLocal, mapLock>>
       ELSE /\ sPhase' = [sPhase EXCEPT ![devPods[arg[t]]] = SessionStop(@)]
            /\ dpLocal' = [dpLocal EXCEPT ![t] = devPods[arg[t]]]
            /\ pc' = [pc EXCEPT ![t] = "st_wait"]
            /\ mapLock' = t
            /\ UNCHANGED <<ret, nameLock, revert>>
    /\ UNCHANGED <<pfVars, logVars, devPods, sName, sErr, sCtx, rootDone, tombErr, tombDying, smUsed,
                   smSel, smOrder, op, arg, tctx, waitSet>>

\* Mutant of Deleted: the entry is left in the registry.
DeletedNothing(reg, n) == reg

\* stop: the registry after delete(d.devPods, name)
Deleted(reg, n) == [reg EXCEPT ![n] = NoPod]

\* stop: dp.Stop() has returned (the session has ended); delete(d.devPods, name);
\* the call returns (Reset after its look at the remote cache) and the deferred
\* unlocks run.
StopDelete(t, ok, err) ==
    /\ pc[t] = "st_wait"
    /\ Done(dpLocal[t])
    /\ devPods' = Deleted(devPods, arg[t])
    /\ ret' = [ret EXCEPT ![t] = StopResult(op[t], "stopped", ok, err)]
    /\ revert' = [revert EXCEPT ![t] = RevertCall(op[t], ok, err)]
    /\ dpLocal' = [dpLocal EXCEPT ![t] = NoPod]
    /\ pc' = [pc EXCEPT ![t] = "returned"]
    /\ mapLock' = Free
    /\ nameLock' = Unlock(nameLock, arg[t])
    /\ UNCHANGED <<pfVars, logVars, sName, sPhase, sErr, sCtx, rootDone, tombErr, tombDying, smUsed,
                   smSel, smOrder, op, arg, tctx, waitSet>>

\* Wait: the snapshot of d.devPods
Snapshot(reg) == {reg[n] : n \in Names} \ {NoPod}

\* Wait: d.mapLock.Lock(); copy d.devPods; d.mapLock.Unlock(); with an empty
\* snapshot the loop has nothing to wait for and Wait returns.
CallWait(t) ==
    /\ MayCall(t)
    /\ mapLock = Free
    /\ waitSet' = [waitSet EXCEPT ![t] = Snapshot(devPods)]
    /\ op' = [op EXCEPT ![t] = "Wait"]
    /\ pc' = [pc EXCEPT ![t] = IF Snapshot(devPods) = {} THEN "returned" ELSE "wt_wait"]
    /\ UNCHANGED <<pfVars, logVars, revert, devPods, sName, sPhase, sErr, sCtx, nameLock, mapLock, rootDone,
                   tombErr, tombDying, smUsed, smSel, smOrder, arg, tctx, dpLocal, ret>>

\* Wait: for _, dp := range devPods { <-dp.Done() }; Wait returns after the last.
WaitFor(t, s) ==
    /\ pc[t] = "wt_wait"
    /\ s \in waitSet[t]
    /\ Done(s)
    /\ waitSet' = [waitSet EXCEPT ![t] = @ \ {s}]
    /\ pc' = [pc EXCEPT ![t] = IF waitSet[t] = {s} THEN "returned" ELSE "wt_wait"]
    /\ UNCHANGED <<pfVars, logVars, revert, devPods, sName, sPhase, sErr, sCtx, nameLock, mapLock, rootDone,
                   tombErr, tombDying, smUsed, smSel, smOrder, op, arg, tctx, dpLocal, ret>>

\* StartMultiple: ctx, tomb := ctx.WithNewTomb(); one tomb.Go(d.Start(ctx, devPod))
\* per configured dev pod that is not skipped.
CallStartMultiple(t, sel) ==
    /\ MayCall(t)
    /\ ~smUsed
    /\ smUsed' = TRUE
    /\ smSel' = sel
    /\ op' = [op EXCEPT ![t] = "StartMultiple"]
    /\ pc' = [u \in Threads |->
                IF u = t THEN "sm_wait"
                ELSE IF Kind(u) = "m" /\ u[2] \in Targets(sel) THEN "start"
                ELSE pc[u]]
    /\ tctx' = [u \in Threads |-> IF Kind(u) = "m" THEN "sm" ELSE tctx[u]]
    /\ arg' = [u \in Threads |-> IF Kind(u) = "m" THEN u[2] ELSE arg[u]]
    /\ UNCHANGED <<pfVars, logVars, revert, devPods, sName, sPhase, sErr, sCtx, nameLock, mapLock, rootDone,
                   tombErr, tombDying, smOrder, dpLocal, ret, waitSet>>

\* StartMultiple: tomb.Go(func() error { return d.Start(ctx, devPod) }): the
\* member's Start has returned and the closure returns its result to the tomb,
\* which records it.
MemberRecord(n) ==
    /\ pc[Member(n)] = "m_ret"
    /\ pc' = [pc EXCEPT ![Member(n)] = "m_done"]
    /\ TombAfter(n, ret[Member(n)])
    /\ UNCHANGED <<pfVars, logVars, revert, devPods, sName, sPhase, sErr, sCtx, nameLock, mapLock, rootDone,
                   smUsed, smSel, op, arg, tctx, dpLocal, ret, waitSet>>

\* StartMultiple: return tomb.Wait(): the tomb has recorded the return of every member.
StartMultipleReturn(t) ==
    /\ pc[t] = "sm_wait"
    /\ \A m \in Members : pc[m] \in {"off", "m_done"}
    /\ ret' = [ret EXCEPT ![t] = tombErr]
    /\ pc' = [pc EXCEPT ![t] = "returned"]
    /\ UNCHANGED <<pfVars, logVars, revert, devPods, sName, sPhase, sErr, sCtx, nameLock, mapLock, rootDone,
                   tombErr, tombDying, smUsed, smSel, smOrder, op, arg, tctx, dpLocal, waitSet>>

\* Start, the sessions and the restart goroutines.
ThreadSteps ==
    \/ \E t \in Threads : StartLock(t)
    \/ \E t \in Threads : StartRead(t)
    \/ \E t \in Threads : StartAlive(t)
    \/ \E t \in Threads : StartInsert(t)
    \/ \E t \in Threads : StartFail(t)
    \/ \E t \in Threads : StartOk(t)
    \/ \E n \in Names : MemberRecord(n)
    \/ \E s \in Sessions, e \in {"nil", "lost", "other"} : SessionDone(s, e)
    \/ CancelRoot
    \/ \E s \in Sessions : WatchDone(s)
    \/ \E s \in Sessions : WatchAfterStart(s)
    \/ \E s \in Sessions : WatchWake(s)

Next ==
    \/ \E t \in Callers, n \in Names : CallStart(t, n)
    \/ \E t \in Callers, sel \in Selections : CallStartMultiple(t, sel)
    \/ \E t \in Callers : StartMultipleReturn(t)
    \/ ThreadSteps
    \/ \E t \in Callers, o \in {"Stop", "Reset"}, n \in Names : CallStop(t, o, n)
    \/ \E t \in Callers, ok \in BOOLEAN, err \in {"nil", "RevertErr"} : StopStop(t, ok, err)
    \/ \E t \in Callers, ok \in BOOLEAN, err \in {"nil", "RevertErr"} : StopDelete(t, ok, err)
    \/ \E t \in Callers : CallWait(t)
    \/ \E t \in Callers, s \in Sessions : WaitFor(t, s)

----------------------------------------------------------------------------
(* Port forwarding: StartPortForwarding for one dev pod, the establishment
   attempts of its forward set, the forwarders and their watchers. *)

MaxForwarders == 2
MaxContainers == 1
\* The runs of the restart hooks after which a watcher starts no further attempt.
MaxHooks == 3

\* An optional value (a Go pointer) is a sequence of length at most one.
Mapping(l, r, b) == [LocalPort |-> l, RemotePort |-> r, BindAddress |-> b]

\* The forward mappings a dev pod is configured with.
MappingSets ==
    { <<>>,
      <<Mapping(<<3000>>, <<>>, "")>>,
      <<Mapping(<<8080>>, <<80>>, "0.0.0.0"), Mapping(<<9229>>, <<>>, "")>>,
      <<Mapping(<<3000>>, <<>>, ""), Mapping(<<>>, <<80>>, "")>> }

Forwarders == 1..MaxForwarders
\* Runner 0 is the member running startPortForwardingWithHooks; runner j is the
\* watcher of forwarder j.
MemberId == 0
Runners == {MemberId} \cup Forwarders
RevSets == 1..MaxContainers

\* Mutant of MissingLocalPort: a mapping without a local port is let through.
MissingLocalPortNever(m) == FALSE

\* startForwarding: if value.LocalPort == nil
MissingLocalPort(m) == m.LocalPort = <<>>

\* startForwarding: ports[index] = localPort + ":" + remotePort, the remote port
\* being the local one when value.RemotePort == nil
PortPair(m) ==
    LET l == IF m.LocalPort = <<>> THEN 0 ELSE m.LocalPort[1] IN
    ToString(l) \o ":" \o ToString(IF m.RemotePort = <<>> THEN l ELSE m.RemotePort[1])

\* startForwarding: addresses[index] is "localhost" for an empty BindAddress
Address(m) == IF m.BindAddress = "" THEN "localhost" ELSE m.BindAddress

\* startForwarding: the loop over portMappings. err: a mapping has no local
\* port, index being the Go index of the first such mapping.
ComputePorts(maps) ==
    LET bad == {i \in 1..Len(maps) : MissingLocalPort(maps[i])} IN
    IF bad # {}
    THEN [err |-> TRUE, index |-> (CHOOSE i \in bad : \A k \in bad : i <= k) - 1,
          ports |-> <<>>, addresses |-> <<>>]
    ELSE [err |-> FALSE, index |-> 0,
          ports |-> [i \in 1..Len(maps) |-> PortPair(maps[i])],
          addresses |-> [i \in 1..Len(maps) |-> Address(maps[i])]]

\* startForwarding up to NewPortForwarder: how far one attempt gets, given
\* ctx.IsDone(), what SelectSinglePod returns ("err", "none": no pod and no
\* error, "pod") and what NewPortForwarder returns ("err", "ok").
Establish(ctxDone, sel, maps, npf) ==
    IF ctxDone THEN "cancelled"
    ELSE IF sel = "err" THEN "selectErr"
    ELSE IF sel = "none" THEN "noPod"
    ELSE IF ComputePorts(maps).err THEN "configErr"
    ELSE IF npf = "err" THEN "newPfErr"
    ELSE "forwarding"

\* Mutant of EstablishRet: finding no pod is an error.
EstablishRetNoPodErr(out) == IF out = "cancelled" THEN "nil" ELSE out

\* startForwarding: what an attempt that ends before the race returns.
EstablishRet(out) == IF out \in {"cancelled", "noPod"} THEN "nil" ELSE out

\* startForwarding, the select: the cases that are ready.
RaceReady(ctxDone, ready, errPending) ==
    {"timeout"} \cup (IF ctxDone THEN {"ctx"} ELSE {})
                \cup (IF ready THEN {"ready"} ELSE {})
                \cup (IF errPending THEN {"error"} ELSE {})

\* Mutant of RaceRet: the timeout is taken for a success.
RaceRetTimeoutOk(e) ==
    CASE e = "ctx" -> "nil"
      [] e = "ready" -> "nil"
      [] e = "error" -> "forwardErr"
      [] OTHER -> "nil"

\* startForwarding, the select: what the attempt returns in each case.
RaceRet(e) ==
    CASE e = "ctx" -> "nil"
      [] e = "ready" -> "nil"
      [] e = "error" -> "forwardErr"
      [] OTHER -> "timeoutErr"

\* startPortForwardingWithHooks: if err != nil { the error hooks }
RunsErrorHooks(err) == err # "nil"

\* startPortForwardingWithHooks: the result, given what startForwarding
\* returned and whether the error hooks succeeded.
WithHooks(err, hookOk) ==
    IF err = "nil" THEN "nil" ELSE IF hookOk THEN err ELSE "pluginErr"

\* startReversePortForwarding: how a reverse set's establishment can end: no pod
\* was found, the forwarding became ready, it failed, or (with the context
\* cancelled) it was cancelled.
ReverseOutcomes(ctxDone) ==
    {"noPod", "ready", "reverseErr"} \cup (IF ctxDone THEN {"cancelled"} ELSE {})

\* startReversePortForwarding: what it returns: only a failure is an error.
ReverseRet(out) == IF out = "reverseErr" THEN "reverseErr" ELSE "nil"

\* startReversePortForwardingWithHooks: the result, given what
\* startReversePortForwarding returned and whether the error hooks succeeded.
ReverseWithHooks(err, hookOk) ==
    IF err = "nil" THEN "nil" ELSE IF hookOk THEN err ELSE "pluginErr"

\* watcher, the retry loop: if err != nil { ...; select {...} }; break
AfterRetry(err) == IF err = "nil" THEN "done" ELSE "sleep"

\* A member of the task tree that returns a non-nil error kills the tree, which
\* cancels the context.
TombKills(r) == r # "nil"

\* Mutant of Closed: the wait loop does not block.
ClosedAlways(done, ch) == TRUE

\* StartPortForwarding: <-initDone returns once the channel is closed.
Closed(done, ch) == ch \in done

\* StartPortForwarding: initDoneArray: the forward set (0) when
\* len(devPod.Forward) > 0, and one reverse set per dev container when
\* len(devPod.PortMappingsReverse) > 0.
InitDoneArray(maps, n, rev) ==
    (IF Len(maps) > 0 THEN <<MemberId>> ELSE <<>>)
        \o (IF rev THEN [i \in 1..n |-> i] ELSE <<>>)

PFStart(maps, cs, n, rev) ==
    /\ mappings = maps
    /\ configSet = cs
    /\ containers = n
    /\ podReverse = rev
    /\ pfCtx = FALSE
    /\ callPc = "idle"
    /\ callRet = "none"
    /\ pending = <<>>
    /\ initDone = {}
    /\ ppc = [r \in Runners |-> "off"]
    /\ aRet = [r \in Runners |-> "none"]
    /\ aCause = [r \in Runners |-> "none"]
    /\ aFw = [r \in Runners |-> 0]
    /\ memRet = "none"
    /\ revPc = [i \in RevSets |-> "off"]
    /\ revRet = [i \in RevSets |-> "none"]
    /\ revCause = [i \in RevSets |-> "none"]
    /\ fwGo = [j \in Forwarders |-> "none"]
    /\ fwReady = [j \in Forwarders |-> FALSE]
    /\ fwClosed = [j \in Forwarders |-> FALSE]
    /\ startedLog = {}
    /\ stoppedLog = 0
    /\ restartLog = [j \in Forwarders |-> 0]
    /\ restartHooks = [j \in Forwarders |-> 0]
    /\ lastHook = [j \in Forwarders |-> "none"]
    /\ stopHooks = 0
    /\ errorHooks = 0

\* No dev pod asks for port forwarding.
PFOff == PFStart(<<>>, TRUE, 1, FALSE)

PFInit ==
    \E maps \in MappingSets, cs \in BOOLEAN, n \in 1..MaxContainers, rev \in BOOLEAN :
        PFStart(maps, cs, n, rev)

\* The context of the session is cancelled.
PFCancel ==
    /\ ~pfCtx
    /\ pfCtx' = TRUE
    /\ UNCHANGED <<mgrVars, logVars, pfLogs, mappings, configSet, containers, podReverse, callPc, callRet,
                   pending, initDone, ppc, aRet, aCause, aFw, memRet, revPc, revRet, revCause, fwGo,
                   fwReady, fwClosed, startedLog, stoppedLog>>

\* StartPortForwarding up to the wait loop: the config check, parent.Go for the
\* forward set and for every reverse set; with an empty initDoneArray it returns.
PFCall ==
    /\ callPc = "idle"
    /\ IF ~configSet
       THEN /\ callPc' = "returned"
            /\ callRet' = "configNotSet"
            /\ UNCHANGED <<pending, ppc, revPc>>
       ELSE LET arr == InitDoneArray(mappings, containers, podReverse) IN
            /\ pending' = arr
            /\ ppc' = [ppc EXCEPT ![MemberId] = IF Len(mappings) > 0 THEN "hook" ELSE "off"]
            /\ revPc' = [i \in RevSets |-> IF podReverse /\ i <= containers
                                           THEN "hook" ELSE "off"]
            /\ callPc' = IF arr = <<>> THEN "returned" ELSE "waiting"
            /\ callRet' = IF arr = <<>> THEN "nil" ELSE "none"
    /\ UNCHANGED <<mgrVars, logVars, pfLogs, mappings, configSet, containers, podReverse, pfCtx, initDone,
                   aRet, aCause, aFw, memRet, revRet, revCause, fwGo, fwReady, fwClosed, startedLog,
                   stoppedLog>>

\* StartPortForwarding: for _, initDone := range initDoneArray { <-initDone };
\* return nil
PFWait ==
    /\ callPc = "waiting"
    /\ Closed(initDone, Head(pending))
    /\ pending' = Tail(pending)
    /\ callPc' = IF Tail(pending) = <<>> THEN "returned" ELSE "waiting"
    /\ callRet' = IF Tail(pending) = <<>> THEN "nil" ELSE "none"
    /\ UNCHANGED <<mgrVars, logVars, pfLogs, mappings, configSet, containers, podReverse, pfCtx, initDone,
                   ppc, aRet, aCause, aFw, memRet, revPc, revRet, revCause, fwGo, fwReady, fwClosed,
                   startedLog, stoppedLog>>

\* startReversePortForwardingWithHooks: the start hooks; if pluginErr != nil {
\* return pluginErr } (and the deferred close(initDone) runs; the tomb has still
\* to take the result)
RevHook(i, hookOk) ==
    /\ revPc[i] = "hook"
    /\ IF hookOk
       THEN /\ revPc' = [revPc EXCEPT ![i] = "attempt"]
            /\ UNCHANGED <<revRet, initDone>>
       ELSE /\ revPc' = [revPc EXCEPT ![i] = "closed"]
            /\ revRet' = [revRet EXCEPT ![i] = "pluginErr"]
            /\ initDone' = initDone \cup {i}
    /\ UNCHANGED <<mgrVars, logVars, pfLogs, mappings, configSet, containers, podReverse, pfCtx, callPc,
                   callRet, pending, ppc, aRet, aCause, aFw, memRet, revCause, fwGo, fwReady,
                   fwClosed, startedLog, stoppedLog>>

\* startReversePortForwardingWithHooks: err := startReversePortForwarding(...),
\* which ends in one of the ways of the establishment routine.
RevAttempt(i, out) ==
    /\ revPc[i] = "attempt"
    /\ out \in ReverseOutcomes(pfCtx)
    /\ revCause' = [revCause EXCEPT ![i] = out]
    /\ revPc' = [revPc EXCEPT ![i] = "ret"]
    /\ UNCHANGED <<mgrVars, logVars, pfLogs, mappings, configSet, containers, podReverse, pfCtx, callPc,
                   callRet, pending, initDone, ppc, aRet, aCause, aFw, memRet, revRet, fwGo,
                   fwReady, fwClosed, startedLog, stoppedLog>>

\* startReversePortForwardingWithHooks: on an error the error hooks run; the
\* function returns and the deferred close(initDone) runs; the tomb has still
\* to take the result.
RevReturn(i, hookOk) ==
    /\ revPc[i] = "ret"
    /\ revRet' = [revRet EXCEPT ![i] = ReverseWithHooks(ReverseRet(revCause[i]), hookOk)]
    /\ revPc' = [revPc EXCEPT ![i] = "closed"]
    /\ initDone' = initDone \cup {i}
    /\ UNCHANGED <<mgrVars, logVars, pfLogs, mappings, configSet, containers, podReverse, pfCtx, callPc,
                   callRet, pending, ppc, aRet, aCause, aFw, memRet, revCause, fwGo, fwReady,
                   fwClosed, startedLog, stoppedLog>>

\* parent.Go: the closure of a reverse set has returned to the tomb, which takes
\* the result: an error kills the tree.
RevTomb(i) ==
    /\ revPc[i] = "closed"
    /\ revPc' = [revPc EXCEPT ![i] = "done"]
    /\ pfCtx' = (pfCtx \/ TombKills(revRet[i]))
    /\ UNCHANGED <<mgrVars, logVars, pfLogs, mappings, configSet, containers, podReverse, callPc, callRet,
                   pending, initDone, ppc, aRet, aCause, aFw, memRet, revRet, revCause, fwGo, fwReady,
                   fwClosed, startedLog, stoppedLog>>

\* startPortForwardingWithHooks: the start hooks; if pluginErr != nil { return
\* pluginErr } (and the deferred close(initDone) runs; the tomb has still to
\* take the result)
MemberHook(hookOk) ==
    /\ ppc[MemberId] = "hook"
    /\ IF hookOk
       THEN /\ ppc' = [ppc EXCEPT ![MemberId] = "attempt"]
            /\ UNCHANGED <<memRet, initDone>>
       ELSE /\ ppc' = [ppc EXCEPT ![MemberId] = "closed"]
            /\ memRet' = "pluginErr"
            /\ initDone' = initDone \cup {MemberId}
    /\ UNCHANGED <<mgrVars, logVars, pfLogs, mappings, configSet, containers, podReverse, pfCtx, callPc,
                   callRet, pending, aRet, aCause, aFw, revPc, revRet, revCause, fwGo, fwReady, fwClosed,
                   startedLog, stoppedLog>>

\* The forwarder the next successful NewPortForwarder creates.
NextForwarder == Cardinality({j \in Forwarders : fwGo[j] # "none"}) + 1

\* startForwarding, called by runner r: if ctx.IsDone() { return nil }; else it
\* goes on to SelectSinglePod.
AttemptBegin(r) ==
    /\ ppc[r] = "attempt"
    /\ IF pfCtx
       THEN /\ aRet' = [aRet EXCEPT ![r] = EstablishRet(Establish(TRUE, "pod", mappings, "ok"))]
            /\ aCause' = [aCause EXCEPT ![r] = Establish(TRUE, "pod", mappings, "ok")]
            /\ aFw' = [aFw EXCEPT ![r] = 0]
            /\ ppc' = [ppc EXCEPT ![r] = "ret"]
       ELSE /\ ppc' = [ppc EXCEPT ![r] = "selecting"]
            /\ UNCHANGED <<aRet, aCause, aFw>>
    /\ UNCHANGED <<mgrVars, logVars, pfLogs, mappings, configSet, containers, podReverse, pfCtx, callPc,
                   callRet, pending, initDone, memRet, revPc, revRet, revCause, fwGo, fwReady,
                   fwClosed, startedLog, stoppedLog>>

\* startForwarding, after the test of the context: SelectSinglePod returns, and
\* the call returns early, or it creates a forwarder and starts the goroutine
\* that runs ForwardPorts; the context is not looked at again before the select.
AttemptSelect(r, sel, npf) ==
    /\ ppc[r] = "selecting"
    /\ LET out == Establish(FALSE, sel, mappings, npf) IN
       IF out = "forwarding"
       THEN /\ NextForwarder \in Forwarders
            /\ fwGo' = [fwGo EXCEPT ![NextForwarder] = "running"]
            /\ aFw' = [aFw EXCEPT ![r] = NextForwarder]
            /\ ppc' = [ppc EXCEPT ![r] = "race"]
            /\ UNCHANGED <<aRet, aCause>>
       ELSE /\ aRet' = [aRet EXCEPT ![r] = EstablishRet(out)]
            /\ aCause' = [aCause EXCEPT ![r] = out]
            /\ aFw' = [aFw EXCEPT ![r] = 0]
            /\ ppc' = [ppc EXCEPT ![r] = "ret"]
            /\ UNCHANGED fwGo
    /\ UNCHANGED <<mgrVars, logVars, pfLogs, mappings, configSet, containers, podReverse, pfCtx, callPc,
                   callRet, pending, initDone, memRet, revPc, revRet, revCause, fwReady, fwClosed,
                   startedLog, stoppedLog>>

\* The forwarder closes readyChan.
FwReady(j) ==
    /\ fwGo[j] = "running"
    /\ ~fwReady[j]
    /\ fwReady' = [fwReady EXCEPT ![j] = TRUE]
    /\ UNCHANGED <<mgrVars, logVars, pfLogs, mappings, configSet, containers, podReverse, pfCtx, callPc,
                   callRet, pending, initDone, ppc, aRet, aCause, aFw, memRet, revPc, revRet, revCause,
                   fwGo, fwClosed, startedLog, stoppedLog>>

\* go func(): err := pf.ForwardPorts(ctx.Context); if err != nil { errorChan <- err }
\* ForwardPorts returns an error and the goroutine blocks in the send.
FwFail(j) ==
    /\ fwGo[j] = "running"
    /\ fwGo' = [fwGo EXCEPT ![j] = "sending"]
    /\ UNCHANGED <<mgrVars, logVars, pfLogs, mappings, configSet, containers, podReverse, pfCtx, callPc,
                   callRet, pending, initDone, ppc, aRet, aCause, aFw, memRet, revPc, revRet, revCause,
                   fwReady, fwClosed, startedLog, stoppedLog>>

\* go func(): ForwardPorts returns nil, after the context was cancelled or the
\* forwarder was closed, and the goroutine ends.
FwExit(j) ==
    /\ fwGo[j] = "running"
    /\ pfCtx \/ fwClosed[j]
    /\ fwGo' = [fwGo EXCEPT ![j] = "exited"]
    /\ UNCHANGED <<mgrVars, logVars, pfLogs, mappings, configSet, containers, podReverse, pfCtx, callPc,
                   callRet, pending, initDone, ppc, aRet, aCause, aFw, memRet, revPc, revRet, revCause,
                   fwReady, fwClosed, startedLog, stoppedLog>>

\* startForwarding, the select over ctx.Context.Done(), readyChan, errorChan and
\* time.After(20 * time.Second); on readyChan: Donef("Port forwarding started ...")
\* and parent.Go(watcher); then startForwarding returns to runner r.
Race(r, e) ==
    LET j == aFw[r] IN
    /\ ppc[r] = "race"
    /\ e \in RaceReady(pfCtx, fwReady[j], fwGo[j] = "sending")
    /\ aRet' = [aRet EXCEPT ![r] = RaceRet(e)]
    /\ aCause' = [aCause EXCEPT ![r] = e]
    /\ ppc' = [ppc EXCEPT ![r] = "ret", ![j] = IF e = "ready" THEN "select" ELSE @]
    /\ fwGo' = [fwGo EXCEPT ![j] = IF e = "error" THEN "delivered" ELSE @]
    /\ startedLog' = (IF e = "ready" THEN startedLog \cup {j} ELSE startedLog)
    /\ UNCHANGED <<mgrVars, logVars, pfLogs, mappings, configSet, containers, podReverse, pfCtx, callPc,
                   callRet, pending, initDone, aFw, memRet, revPc, revRet, revCause, fwReady, fwClosed,
                   stoppedLog>>

\* startPortForwardingWithHooks: startForwarding has returned; on an error the
\* error hooks run; the member returns and the deferred close(initDone) runs;
\* the tomb has still to take the result.
MemberReturn(hookOk) ==
    /\ ppc[MemberId] = "ret"
    /\ memRet' = WithHooks(aRet[MemberId], hookOk)
    /\ errorHooks' = errorHooks + (IF RunsErrorHooks(aRet[MemberId]) THEN 1 ELSE 0)
    /\ ppc' = [ppc EXCEPT ![MemberId] = "closed"]
    /\ initDone' = initDone \cup {MemberId}
    /\ UNCHANGED <<mgrVars, logVars, mappings, configSet, containers, podReverse, pfCtx, callPc,
                   callRet, pending, aRet, aCause, aFw, revPc, revRet, revCause, fwGo, fwReady, fwClosed,
                   startedLog, stoppedLog, restartLog, restartHooks, lastHook,
                   stopHooks>>

\* parent.Go: the closure of the forward set has returned to the tomb, which
\* takes the result: an error kills the tree.
MemberTomb ==
    /\ ppc[MemberId] = "closed"
    /\ ppc' = [ppc EXCEPT ![MemberId] = "done"]
    /\ pfCtx' = (pfCtx \/ TombKills(memRet))
    /\ UNCHANGED <<mgrVars, logVars, pfLogs, mappings, configSet, containers, podReverse, callPc, callRet,
                   pending, initDone, aRet, aCause, aFw, memRet, revPc, revRet, revCause, fwGo, fwReady,
                   fwClosed, startedLog, stoppedLog>>

\* watcher: case <-ctx.Context.Done(): pf.Close(); stopPortForwarding(...)
\* stopPortForwarding: the stop hooks, parent.Kill(nil), Done("Stopped port forwarding")
WatchCtx(j) ==
    /\ ppc[j] = "select"
    /\ pfCtx
    /\ fwClosed' = [fwClosed EXCEPT ![j] = TRUE]
    /\ stopHooks' = stopHooks + 1
    /\ stoppedLog' = stoppedLog + 1
    /\ ppc' = [ppc EXCEPT ![j] = "done"]
    /\ UNCHANGED <<mgrVars, logVars, mappings, configSet, containers, podReverse, pfCtx, callPc,
                   callRet, pending, initDone, aRet, aCause, aFw, memRet, revPc, revRet, revCause,
                   fwGo, fwReady, startedLog, restartLog, restartHooks, lastHook, errorHooks>>

\* watcher: hook.LogExecuteHooks(...) has no result: whether the restart hooks
\* succeed or fail, the retry loop is entered.
AfterRestartHook(hookOk) == "attempt"

\* watcher: case err := <-errorChan: the "restarting" log, PrintPodError,
\* pf.Close(), the restart hooks; then the retry loop calls startForwarding.
WatchErr(j, hookOk) ==
    /\ ppc[j] = "select"
    /\ fwGo[j] = "sending"
    /\ fwGo' = [fwGo EXCEPT ![j] = "delivered"]
    /\ restartLog' = [restartLog EXCEPT ![j] = @ + 1]
    /\ fwClosed' = [fwClosed EXCEPT ![j] = TRUE]
    /\ restartHooks' = [restartHooks EXCEPT ![j] = @ + 1]
    /\ lastHook' = [lastHook EXCEPT ![j] = IF hookOk THEN "ok" ELSE "failed"]
    /\ ppc' = [ppc EXCEPT ![j] = AfterRestartHook(hookOk)]
    /\ UNCHANGED <<mgrVars, logVars, mappings, configSet, containers, podReverse, pfCtx, callPc,
                   callRet, pending, initDone, aRet, aCause, aFw, memRet, revPc, revRet, revCause,
                   fwReady, startedLog, stoppedLog, stopHooks, errorHooks>>

\* watcher, the retry loop: startForwarding has returned: on an error the
\* restart hooks run again, for that error, and two lines are logged, then the
\* 15 second select; else break.
WatchRet(j, hookOk) ==
    /\ ppc[j] = "ret"
    /\ ppc' = [ppc EXCEPT ![j] = AfterRetry(aRet[j])]
    /\ IF aRet[j] = "nil"
       THEN hookOk /\ UNCHANGED <<restartHooks, lastHook>>
       ELSE /\ restartHooks' = [restartHooks EXCEPT ![j] = @ + 1]
            /\ lastHook' = [lastHook EXCEPT ![j] = IF hookOk THEN "ok" ELSE "failed"]
    /\ UNCHANGED <<mgrVars, logVars, mappings, configSet, containers, podReverse, pfCtx, callPc,
                   callRet, pending, initDone, aRet, aCause, aFw, memRet, revPc, revRet, revCause,
                   fwGo, fwReady, fwClosed, startedLog, stoppedLog, restartLog,
                   stopHooks, errorHooks>>

\* watcher, the retry loop: case <-time.After(time.Second * 15): continue
WatchRetry(j) ==
    /\ ppc[j] = "sleep"
    /\ restartHooks[j] < MaxHooks
    /\ ppc' = [ppc EXCEPT ![j] = "attempt"]
    /\ UNCHANGED <<mgrVars, logVars, pfLogs, mappings, configSet, containers, podReverse, pfCtx, callPc,
                   callRet, pending, initDone, aRet, aCause, aFw, memRet, revPc, revRet, revCause,
                   fwGo, fwReady, fwClosed, startedLog, stoppedLog>>

\* watcher, the retry loop: case <-ctx.Context.Done(): stopPortForwarding(...);
\* return nil
WatchSleepCtx(j) ==
    /\ ppc[j] = "sleep"
    /\ pfCtx
    /\ stopHooks' = stopHooks + 1
    /\ stoppedLog' = stoppedLog + 1
    /\ ppc' = [ppc EXCEPT ![j] = "done"]
    /\ UNCHANGED <<mgrVars, logVars, mappings, configSet, containers, podReverse, pfCtx, callPc,
                   callRet, pending, initDone, aRet, aCause, aFw, memRet, revPc, revRet, revCause,
                   fwGo, fwReady, fwClosed, startedLog, restartLog, restartHooks,
                   lastHook, errorHooks>>

NextPF ==
    \/ PFCancel
    \/ PFCall
    \/ PFWait
    \/ \E i \in RevSets, hookOk \in BOOLEAN : RevHook(i, hookOk)
    \/ \E i \in RevSets, out \in {"noPod", "ready", "reverseErr", "cancelled"} : RevAttempt(i, out)
    \/ \E i \in RevSets, hookOk \in BOOLEAN : RevReturn(i, hookOk)
    \/ \E i \in RevSets : RevTomb(i)
    \/ \E hookOk \in BOOLEAN : MemberHook(hookOk)
    \/ \E r \in Runners : AttemptBegin(r)
    \/ \E r \in Runners, sel \in {"err", "none", "pod"}, npf \in {"err", "ok"} :
            AttemptSelect(r, sel, npf)
    \/ \E j \in Forwarders : FwReady(j)
    \/ \E j \in Forwarders : FwFail(j)
    \/ \E j \in Forwarders : FwExit(j)
    \/ \E r \in Runners, e \in {"ctx", "ready", "error", "timeout"} : Race(r, e)
    \/ \E hookOk \in BOOLEAN : MemberReturn(hookOk)
    \/ MemberTomb
    \/ \E j \in Forwarders : WatchCtx(j)
    \/ \E j \in Forwarders, hookOk \in BOOLEAN : WatchErr(j, hookOk)
    \/ \E j \in Forwarders, hookOk \in BOOLEAN : WatchRet(j, hookOk)
    \/ \E j \in Forwarders : WatchRetry(j)
    \/ \E j \in Forwarders : WatchSleepCtx(j)

----------------------------------------------------------------------------
(* The prefix logger: its mutex, its level and the leveled write operations. *)

\* logrus.Level: PanicLevel = 0 up to TraceLevel = 6
FatalLevel == 1
ErrorLevel == 2
WarnLevel == 3
InfoLevel == 4
DebugLevel == 5
Levels == 0..6

Goroutines == {"g1", "g2"}

\* The methods that call writeMessage.
FatalOps == {"Fatal", "Fatalf"}
WriteOps == {"Debug", "Debugf", "Info", "Infof", "Warn", "Warnf", "Error", "Errorf",
             "Done", "Donef"} \cup FatalOps

\* The other methods that lock s.m, and the methods that do not lock.
BodyOps == {"SetLevel", "WithLevel", "Writer", "WriteString", "Question"}
NoLockOps == {"WithoutPrefix", "Write"}
LevelOps == {"SetLevel", "WithLevel", "Writer", "WriteString"}

\* The methods with a level parameter, and those without.
LevelMethods == LevelOps \cup {"Print", "Printf"}
PlainMethods == WriteOps \cup NoLockOps \cup {"GetLevel", "Question"}

\* The level each write operation passes to writeMessage.
MsgLevel(o) ==
    CASE o \in {"Debug", "Debugf"} -> DebugLevel
      [] o \in {"Info", "Infof", "Done", "Donef"} -> InfoLevel
      [] o \in {"Warn", "Warnf"} -> WarnLevel
      [] o \in {"Error", "Errorf"} -> ErrorLevel
      [] o \in {"Fatal", "Fatalf"} -> FatalLevel

\* Print, Printf: switch level { case InfoLevel: s.Info ... case FatalLevel:
\* s.Fatal }; a level without a case calls nothing ("none").
Dispatch(o, l) ==
    CASE l = InfoLevel -> (IF o = "Print" THEN "Info" ELSE "Infof")
      [] l = DebugLevel -> (IF o = "Print" THEN "Debug" ELSE "Debugf")
      [] l = WarnLevel -> (IF o = "Print" THEN "Warn" ELSE "Warnf")
      [] l = ErrorLevel -> (IF o = "Print" THEN "Error" ELSE "Errorf")
      [] l = FatalLevel -> (IF o = "Print" THEN "Fatal" ELSE "Fatalf")
      [] OTHER -> "none"

\* writeMessage: if s.level >= level
Passes(loggerLevel, level) == loggerLevel >= level

\* writeMessage: os.Getenv(DevSpaceLogTimestamps) == "true" || s.GetLevel() == ...
\* the second operand is evaluated only when the first is false.
CallsGetLevel(stamps) == ~stamps

\* Fatal, Fatalf: os.Exit(1) follows writeMessage; the other write operations return.
AfterWrite(o) == IF o \in FatalOps THEN "exit" ELSE "unlock"

\* Writer: if s.level < level { return ioutil.Discard }; return s
Writer(loggerLevel, level) == IF loggerLevel < level THEN "discard" ELSE "self"

\* WriteString: if s.level < level { return }; s.base.WriteString(level, message)
WriteString(loggerLevel, level) == IF loggerLevel < level THEN "skipped" ELSE "written"

\* Question: if s.level < logrus.InfoLevel { return "", error }; return s.base.Question(params)
Question(loggerLevel) == IF loggerLevel < InfoLevel THEN "error" ELSE "asked"

LogStart(l, st) ==
    /\ lgLevel = l
    /\ lgStamps = st
    /\ lgM = "none"
    /\ lgPc = [g \in Goroutines |-> "idle"]
    /\ lgOp = [g \in Goroutines |-> "none"]
    /\ lgArg = [g \in Goroutines |-> 0]
    /\ lgOut = [g \in Goroutines |-> "none"]

\* No prefix logger is in use.
LogOff == LogStart(InfoLevel, FALSE)

\* NewDefaultPrefixLogger, NewPrefixLogger: level: base.GetLevel()
LogInit == \E l \in Levels, st \in BOOLEAN : LogStart(l, st)

\* Goroutine g calls method o with level argument l. Print and Printf call the
\* method of the level, or nothing; WithoutPrefix and Write return what the
\* base logger gives, without the mutex.
LogCall(g, o, l) ==
    /\ lgPc[g] = "idle"
    /\ LET m == IF o \in {"Print", "Printf"} THEN Dispatch(o, l) ELSE o IN
        /\ lgOp' = [lgOp EXCEPT ![g] = IF m = "none" THEN o ELSE m]
        /\ lgArg' = [lgArg EXCEPT ![g] = IF m \in LevelOps THEN l ELSE 0]
        /\ lgOut' = [lgOut EXCEPT ![g] = IF m \in NoLockOps THEN "base" ELSE "none"]
        /\ lgPc' = [lgPc EXCEPT ![g] =
                        IF m = "none" \/ m \in NoLockOps THEN "idle"
                        ELSE IF m = "GetLevel" THEN "gl_lock"
                        ELSE "lock"]
    /\ UNCHANGED <<mgrVars, pfVars, lgLevel, lgStamps, lgM>>

\* Debug ... Donef, Fatal, Fatalf, SetLevel, WithLevel, Writer, WriteString,
\* Question: s.m.Lock()
LogLock(g) ==
    /\ lgPc[g] = "lock"
    /\ lgM = "none"
    /\ lgM' = g
    /\ lgPc' = [lgPc EXCEPT ![g] = IF lgOp[g] \in WriteOps THEN "write" ELSE "body"]
    /\ UNCHANGED <<mgrVars, pfVars, lgLevel, lgStamps, lgOp, lgArg, lgOut>>

\* writeMessage: the level test; with timestamps on, the stamped
\* s.base.WriteString; else the call of s.GetLevel().
LogWrite(g) ==
    /\ lgPc[g] = "write"
    /\ IF ~Passes(lgLevel, MsgLevel(lgOp[g]))
       THEN /\ lgOut' = [lgOut EXCEPT ![g] = "skipped"]
            /\ lgPc' = [lgPc EXCEPT ![g] = AfterWrite(lgOp[g])]
       ELSE IF CallsGetLevel(lgStamps)
       THEN /\ lgPc' = [lgPc EXCEPT ![g] = "gl_lock"]
            /\ UNCHANGED lgOut
       ELSE /\ lgOut' = [lgOut EXCEPT ![g] = "written"]
            /\ lgPc' = [lgPc EXCEPT ![g] = AfterWrite(lgOp[g])]
    /\ UNCHANGED <<mgrVars, pfVars, lgLevel, lgStamps, lgM, lgOp, lgArg>>

\* SetLevel: s.level = level. WithLevel: a new logger with the level.
\* Writer, WriteString, Question: the level test and the call of the base
\* logger, the mutex held.
LogBody(g) ==
    /\ lgPc[g] = "body"
    /\ lgLevel' = (IF lgOp[g] = "SetLevel" THEN lgArg[g] ELSE lgLevel)
    /\ lgOut' = [lgOut EXCEPT ![g] =
                    CASE lgOp[g] = "SetLevel" -> "set"
                      [] lgOp[g] = "WithLevel" -> "logger"
                      [] lgOp[g] = "Writer" -> Writer(lgLevel, lgArg[g])
                      [] lgOp[g] = "WriteString" -> WriteString(lgLevel, lgArg[g])
                      [] OTHER -> Question(lgLevel)]
    /\ lgPc' = [lgPc EXCEPT ![g] = "unlock"]
    /\ UNCHANGED <<mgrVars, pfVars, lgStamps, lgM, lgOp, lgArg>>

\* GetLevel: s.m.Lock(). sync.Mutex is not reentrant: the goroutine waits also
\* when it holds the mutex itself.
GetLevelLock(g) ==
    /\ lgPc[g] = "gl_lock"
    /\ lgM = "none"
    /\ lgM' = g
    /\ lgPc' = [lgPc EXCEPT ![g] = "gl_ret"]
    /\ UNCHANGED <<mgrVars, pfVars, lgLevel, lgStamps, lgOp, lgArg, lgOut>>

\* GetLevel: return s.level and the deferred s.m.Unlock(); inside
\* writeMessage the s.base.WriteString follows.
GetLevelRet(g) ==
    /\ lgPc[g] = "gl_ret"
    /\ lgM' = "none"
    /\ IF lgOp[g] = "GetLevel"
       THEN /\ lgPc' = [lgPc EXCEPT ![g] = "idle"]
            /\ lgOut' = [lgOut EXCEPT ![g] = "level"]
       ELSE /\ lgOut' = [lgOut EXCEPT ![g] = "written"]
            /\ lgPc' = [lgPc EXCEPT ![g] = AfterWrite(lgOp[g])]
    /\ UNCHANGED <<mgrVars, pfVars, lgLevel, lgStamps, lgOp, lgArg>>

\* Fatal, Fatalf: os.Exit(1): the process ends, no deferred call runs and no
\* goroutine takes another step.
LogExit(g) ==
    /\ lgPc[g] = "exit"
    /\ lgPc' = [h \in Goroutines |-> "exited"]
    /\ UNCHANGED <<mgrVars, pfVars, lgLevel, lgStamps, lgM, lgOp, lgArg, lgOut>>

\* The deferred s.m.Unlock() and the return.
LogUnlock(g) ==
    /\ lgPc[g] = "unlock"
    /\ lgM' = "none"
    /\ lgPc' = [lgPc EXCEPT ![g] = "idle"]
    /\ lgArg' = [lgArg EXCEPT ![g] = 0]
    /\ UNCHANGED <<mgrVars, pfVars, lgLevel, lgStamps, lgOp, lgOut>>

NextLog ==
    \/ \E g \in Goroutines, o \in PlainMethods : LogCall(g, o, 0)
    \/ \E g \in Goroutines, o \in LevelMethods, l \in Levels : LogCall(g, o, l)
    \/ \E g \in Goroutines : LogLock(g)
    \/ \E g \in Goroutines : LogWrite(g)
    \/ \E g \in Goroutines : LogBody(g)
    \/ \E g \in Goroutines : GetLevelLock(g)
    \/ \E g \in Goroutines : GetLevelRet(g)
    \/ \E g \in Goroutines : LogExit(g)
    \/ \E g \in Goroutines : LogUnlock(g)

Init == MgrInit /\ PFOff /\ LogOff

InitPF == MgrInit /\ PFInit /\ LogOff

InitLog == MgrInit /\ PFOff /\ LogInit

SpecLog == InitLog /\ [][NextLog]_vars

Spec == Init /\ [][Next]_vars

SpecPF == InitPF /\ [][NextPF]_vars

\* The steps of thread t inside Start, Stop and Reset: taking the locks, the
\* registry accesses, and the return of the session's Start.
CallSteps(t) ==
    \/ StartLock(t)
    \/ StartRead(t)
    \/ StartAlive(t)
    \/ StartInsert(t)
    \/ StartFail(t)
    \/ StartOk(t)
    \/ \E ok \in BOOLEAN, err \in {"nil", "RevertErr"} : StopStop(t, ok, err)
    \/ \E ok \in BOOLEAN, err \in {"nil", "RevertErr"} : StopDelete(t, ok, err)

\* A session that was stopped, or whose Start failed, ends: the session's Stop returns.
StopReturns(s) == sPhase[s] \in {"stopping", "failed"} /\ \E e \in {"nil", "other"} : SessionDone(s, e)

\* The manager with calls that go on and session Start and Stop calls that return.
SpecFair ==
    /\ Init /\ [][Next]_vars
    /\ \A t \in Threads : WF_vars(CallSteps(t))
    /\ \A s \in Sessions : WF_vars(StopReturns(s))
----------------------------------------------------------------------------
(* Claims about the manager *)

SessionsOf(n) == {s \in Created : sName[s] = n}
WatcherExits == {"w_exit_ctx", "w_exit_err", "w_exit_conflict", "w_exit_started"}

\* C1: for every name at most one of the sessions ever created for it is
\* Alive, and the registry entry of a name is set to a session only by a thread
\* that holds the lock of the name, and only when the entry was absent or held
\* a session that is not Alive.
C1_AtMostOneAlive ==
    /\ [](\A n \in Names : Cardinality({s \in SessionsOf(n) : Alive(s)}) <= 1)
    /\ [][\A n \in Names :
            (devPods'[n] # devPods[n] /\ devPods'[n] # NoPod) =>
                /\ nameLock[n] # Free
                /\ devPods[n] = NoPod \/ Done(devPods[n])]_vars

\* C1 witness: a name whose first session has ended and was replaced in the
\* registry by a second, running one.
C1_Witness ==
    \E n \in Names : \E s1, s2 \in SessionsOf(n) :
        /\ s1 # s2
        /\ Done(s1)
        /\ sPhase[s2] = "running"
        /\ devPods[n] = s2

\* The Start calls for name n that have returned.
StartReturned(n) ==
    {t \in Callers : pc[t] = "returned" /\ op[t] = "Start" /\ arg[t] = n}
        \cup {t \in Members : pc[t] \in {"m_ret", "m_done"} /\ t[2] = n}

\* No Stop or Reset has stopped a session of n, no session of n has failed to
\* start and none has ended.
Undisturbed(n) == \A s \in SessionsOf(n) : sPhase[s] \in {"new", "running"}

\* C2: of the Start calls for one name that have returned while the session's
\* start succeeded and the session stayed alive (no Stop or Reset), exactly one
\* returned nil and registered the session; every other returned the Conflict
\* error and the registry still holds the session of the one that returned nil.
C2_OneStartWins ==
    \A n \in Names :
        (Undisturbed(n) /\ StartReturned(n) # {}) =>
            /\ Cardinality({t \in StartReturned(n) : ret[t] = "nil"}) = 1
            /\ \A t \in StartReturned(n) : ret[t] \in {"nil", "Conflict"}
            /\ Cardinality(SessionsOf(n)) = 1
            /\ devPods[n] \in SessionsOf(n)
            /\ sPhase[devPods[n]] = "running"

\* C2 witness: two Start calls for one name have returned, one with nil and one
\* with Conflict, and the session is running.
C2_Witness ==
    \E n \in Names :
        /\ Undisturbed(n)
        /\ Cardinality(StartReturned(n)) = 2
        /\ Cardinality({t \in StartReturned(n) : ret[t] = "Conflict"}) = 1
        /\ Cardinality({t \in StartReturned(n) : ret[t] = "nil"}) = 1

\* C3: Stop(name) is idempotent. Every step of a Stop call leaves the entries of
\* the other names unchanged; a Stop that finds no entry changes neither the
\* registry nor any session; and when Stop returns, the first time or again, the
\* registry holds no entry for the name, the session it found having ended.
C3_StopIdempotent ==
    [][\A t \in Callers :
        (op'[t] = "Stop" /\ pc'[t] # pc[t]) =>
            /\ \A m \in Names \ {arg'[t]} : devPods'[m] = devPods[m]
            /\ pc'[t] = "returned" =>
                /\ devPods'[arg[t]] = NoPod
                /\ devPods[arg[t]] = NoPod => (devPods' = devPods /\ sPhase' = sPhase)
                /\ devPods[arg[t]] # NoPod => sPhase'[devPods[arg[t]]] = "done"]_vars

\* C3 witness: two Stop calls for the same name have returned, the first stopped
\* and removed the session, the second found none, and the name has no entry.
C3_Witness ==
    \E n \in Names : \E t1, t2 \in Callers :
        /\ pc[t1] = "returned" /\ op[t1] = "Stop" /\ arg[t1] = n /\ ret[t1] = "stopped"
        /\ pc[t2] = "returned" /\ op[t2] = "Stop" /\ arg[t2] = n /\ ret[t2] = "absent"
        /\ devPods[n] = NoPod

\* C4: when a session fires Done with a lost connection and the context is not
\* cancelled, the restart goroutine calls Start again; after a failed attempt
\* (not Conflict, context not cancelled) it sleeps and then calls Start again; it
\* leaves the loop only when Start succeeded, the context is cancelled or the
\* attempt returned Conflict.
C4_RestartLoop ==
    [][\A s \in Sessions :
        LET w == Watcher(s) IN
        /\ (pc[w] = "w_done" /\ pc'[w] # "w_done" /\ sErr[s] = "lost" /\ ~IsDone(tctx[w]))
              => pc'[w] = "start"
        /\ (pc[w] \in {"s_alive", "s_dpstart"} /\ pc'[w] \notin {"s_alive", "s_insert", "s_dpstart"})
              => pc'[w] = "w_ret"
        /\ (pc[w] = "w_ret" /\ pc'[w] # "w_ret"
                /\ ret[w] \notin {"nil", "Conflict"} /\ ~IsDone(tctx[w]))
              => pc'[w] = "w_sleep"
        /\ (pc[w] = "w_sleep" /\ pc'[w] # "w_sleep") => pc'[w] = "start"
        /\ (pc[w] \notin WatcherExits \cup {"off", "w_done"} /\ pc'[w] \in WatcherExits)
              => (pc[w] = "w_ret" /\ (ret[w] \in {"nil", "Conflict"} \/ IsDone(tctx[w])))]_vars

\* C4 witness: a restart goroutine whose attempt failed has slept and is calling
\* Start again, the context not being cancelled.
C4_Witness ==
    \E s \in Sessions :
        /\ pc[Watcher(s)] = "start"
        /\ ret[Watcher(s)] = "StartErr"
        /\ sErr[s] = "lost"
        /\ ~rootDone

\* C7: at the moment Wait returns no session registered in the manager is Alive
\* (stated for a Wait beside which the only calls are Start calls made before
\* it: no call is made while Wait waits).
C7_WaitAllStopped ==
    [][\A t \in Callers :
        (op'[t] = "Wait" /\ pc[t] # "returned" /\ pc'[t] = "returned"
            /\ \A u \in Callers \ {t} : pc'[u] = "idle" \/ (u[3] < t[3] /\ op'[u] = "Start")) =>
            \A n \in Names : devPods'[n] # NoPod => sPhase'[devPods'[n]] = "done"]_vars

\* The first error in the order the members returned, nil when all succeeded.
FirstError ==
    LET bad == {i \in 1..Len(smOrder) : ret[Member(smOrder[i])] # "nil"} IN
    IF bad = {} THEN "nil"
    ELSE ret[Member(smOrder[CHOOSE i \in bad : \A j \in bad : i <= j])]

\* C9: when StartMultiple has returned, Start was called for exactly the
\* configured dev pods in the selection (all of them when the selection is
\* empty), each of these calls has returned, and the result is nil when all
\* succeeded and otherwise the first error a call returned.
C9_StartMultiple ==
    \A t \in Callers :
        (pc[t] = "returned" /\ op[t] = "StartMultiple") =>
            /\ \A n \in Names :
                  pc[Member(n)] = (IF smSel = {} \/ n \in smSel THEN "m_done" ELSE "off")
            /\ Len(smOrder) = Cardinality({n \in Names : pc[Member(n)] = "m_done"})
            /\ ret[t] = FirstError

\* C9 witness: StartMultiple with an empty selection has returned the error of
\* the member that failed first, the other member having succeeded.
C9_Witness ==
    \E t \in Callers :
        /\ pc[t] = "returned" /\ op[t] = "StartMultiple"
        /\ smSel = {}
        /\ ret[t] # "nil"
        /\ \E n \in Names : ret[Member(n)] = "nil" /\ pc[Member(n)] = "m_done"
----------------------------------------------------------------------------
(* Claims about port forwarding *)

\* The sets StartPortForwarding starts: the forward set (0) and the reverse sets.
Requested ==
    IF ~configSet THEN {}
    ELSE (IF Len(mappings) > 0 THEN {MemberId} ELSE {})
            \cup (IF podReverse THEN 1..containers ELSE {})

\* The goroutine of set i has returned from its establishment routine.
SetFinished(i) ==
    IF i = MemberId THEN ppc[MemberId] \in {"closed", "done"} ELSE revPc[i] \in {"closed", "done"}

\* How the establishment of set i ended.
SetCause(i) == IF i = MemberId THEN aCause[MemberId] ELSE revCause[i]

\* What the goroutine of set i returned.
SetRet(i) == IF i = MemberId THEN memRet ELSE revRet[i]

SetReady(i) == SetRet(i) = "nil" /\ SetCause(i) = "ready"

SetFailed(i) == SetRet(i) \notin {"none", "nil"}

SetCancelled(i) == SetRet(i) = "nil" /\ SetCause(i) \in {"cancelled", "ctx"}

SetWithoutPod(i) == SetRet(i) = "nil" /\ SetCause(i) = "noPod"

\* StartPortForwarding returns at once when it starts no set.
ReturnsAtOnce ==
    [][(callPc = "idle" /\ callPc' # "idle" /\ Requested = {}) => callPc' = "returned"]_vars

\* C5 as stated: StartPortForwarding has not returned before every requested
\* set has finished its establishment routine, that is, has reached readiness,
\* has failed or was cancelled; with no set requested it returns at once.
C5_Barrier ==
    /\ [](callPc = "returned" =>
            \A i \in Requested :
                SetFinished(i) /\ (SetReady(i) \/ SetFailed(i) \/ SetCancelled(i)))
    /\ ReturnsAtOnce

\* C5, amended: StartPortForwarding has not returned before every requested set
\* has finished its establishment routine, that is, has reached readiness, has
\* failed, was cancelled, or has found no pod to forward to; with no set
\* requested it returns at once.
C5_BarrierOrNoPod ==
    /\ [](callPc = "returned" =>
            \A i \in Requested :
                /\ SetFinished(i)
                /\ SetReady(i) \/ SetFailed(i) \/ SetCancelled(i) \/ SetWithoutPod(i))
    /\ [][(callPc = "idle" /\ callPc' # "idle" /\ Requested = {}) => callPc' = "returned"]_vars

\* StartPortForwarding has returned after a forward set that became ready and a
\* reverse set that found no pod.
C5_Witness ==
    /\ callPc = "returned"
    /\ Requested = {MemberId, 1}
    /\ SetReady(MemberId)
    /\ SetFinished(1)
    /\ SetWithoutPod(1)

\* C6: once a watcher has received the error signal, it re-runs establishment
\* every 15 seconds and ends only when the context is cancelled or when an
\* attempt has succeeded: a new forwarder has become ready and is watched.
C6_RetryUntilSuccess ==
    [][\A j \in Forwarders :
        /\ (ppc[j] \in {"attempt", "selecting", "race", "ret", "sleep"} /\ ppc'[j] = "done") =>
                \/ pfCtx
                \/ aFw[j] # 0 /\ fwReady[aFw[j]] /\ ppc[aFw[j]] # "off"
        /\ (ppc[j] = "sleep" /\ ppc'[j] # "sleep") => ppc'[j] \in {"attempt", "done"}]_vars

\* C8: an attempt that has created forwarder j leaves the select in one of
\* four ways: on cancellation with nil, no confirmation and no watcher; on
\* readiness with nil, the "started" confirmation and a watcher for j; on the
\* error signal with the wrapped error and no watcher; on the timeout with the
\* timeout error and no watcher.
C8_RaceOutcome ==
    [][\A r \in Runners :
        (ppc[r] = "race" /\ ppc'[r] = "ret") =>
            LET j == aFw[r]
                spawned == ppc[j] = "off" /\ ppc'[j] = "select"
                logged == j \in startedLog' /\ j \notin startedLog
            IN  \/ pfCtx /\ aRet'[r] = "nil" /\ ppc'[j] = "off" /\ ~logged
                \/ fwReady[j] /\ aRet'[r] = "nil" /\ spawned /\ logged
                \/ /\ fwGo[j] = "sending" /\ fwGo'[j] = "delivered"
                   /\ aRet'[r] = "forwardErr" /\ ppc'[j] = "off" /\ ~logged
                \/ aRet'[r] = "timeoutErr" /\ ppc'[j] = "off" /\ ~logged]_vars

\* The first attempt became ready and the re-establishment by its watcher timed out.
C8_Witness ==
    /\ aCause[MemberId] = "ready"
    /\ ppc[1] = "ret"
    /\ aCause[1] = "timeout"
    /\ aRet[1] = "timeoutErr"
    /\ ppc[2] = "off"

HasNoLocalPort == \E i \in 1..Len(mappings) : mappings[i].LocalPort = <<>>

\* C10 as stated: for a mapping set with a mapping without a local port the
\* establishment attempt fails with the configuration error, no forwarder is
\* ever created and no watcher ever runs the re-establishment loop.
C10_ConfigErrorAlways ==
    HasNoLocalPort =>
        /\ aCause[MemberId] # "none" =>
                aCause[MemberId] = "configErr" /\ aRet[MemberId] = "configErr"
        /\ \A j \in Forwarders : fwGo[j] = "none" /\ ppc[j] = "off"

\* C10, amended: for a mapping set with a mapping without a local port, an
\* attempt that runs with a live context and has selected a pod fails with the
\* configuration error, which the member returns unless the error hooks fail;
\* an attempt that ends earlier (context cancelled, selection error, no pod)
\* never looks at the mappings; no forwarder is ever created and no watcher ever
\* runs the re-establishment loop.
C10_ConfigError ==
    HasNoLocalPort =>
        /\ \A npf \in {"err", "ok"} : Establish(FALSE, "pod", mappings, npf) = "configErr"
        /\ aCause[MemberId] \in {"none", "cancelled", "selectErr", "noPod", "configErr"}
        /\ aCause[MemberId] = "configErr" =>
                /\ aRet[MemberId] = "configErr"
                /\ ppc[MemberId] \in {"closed", "done"} => memRet \in {"configErr", "pluginErr"}
        /\ \A j \in Forwarders : fwGo[j] = "none" /\ ppc[j] = "off"

\* The member has returned the configuration error of such a set.
C10_Witness ==
    /\ HasNoLocalPort
    /\ aCause[MemberId] = "configErr"
    /\ ppc[MemberId] = "done"
    /\ memRet = "configErr"

\* C11: a watcher that receives the error of its forwarder logs "restarting"
\* once, runs the restart hooks once, closes the forwarder and goes on to a
\* re-establishment attempt, whether the hooks succeed or fail; the restart
\* hooks have run exactly once for each error a watcher has received.
C11_MidFlightError ==
    /\ [][\A j \in Forwarders :
            (ppc[j] = "select" /\ fwGo[j] = "sending" /\ fwGo'[j] = "delivered") =>
                /\ restartLog'[j] = restartLog[j] + 1
                /\ restartHooks'[j] = restartHooks[j] + 1
                /\ lastHook'[j] \in {"ok", "failed"}
                /\ fwClosed'[j]
                /\ ppc'[j] = "attempt"]_vars
    /\ [](\A j \in Forwarders : restartHooks[j] = restartLog[j])

\* C12: a watcher of an established set that ends with the context cancelled
\* has closed its forwarder, and the stop hooks have run and "Stopped port
\* forwarding" has been logged exactly once, unless it has handed the set over
\* to the watcher of a new forwarder; this also when the cancellation arrives
\* during a re-establishment. The confirmation is never logged twice.
C12_StoppedOnCancel ==
    /\ [][\A j \in Forwarders :
            (ppc[j] \in {"select", "attempt", "selecting", "race", "ret", "sleep"}
                /\ ppc'[j] = "done" /\ pfCtx') =>
                \/ fwClosed'[j] /\ stopHooks' = 1 /\ stoppedLog' = 1
                \/ aFw[j] # 0 /\ ppc'[aFw[j]] # "off"]_vars
    /\ [](stoppedLog <= 1 /\ stopHooks = stoppedLog)

\* C13: Reset(name) returns holding neither lock, with no registry entry for
\* name and with the session it found there stopped; it returns the error of
\* the reversal when the remote cache has a record for name, and nil when it
\* has none; up to its return it holds the lock of name.
C13_Reset ==
    [][\A t \in Callers :
        (op[t] = "Reset" /\ pc[t] # "returned" /\ pc'[t] = "returned") =>
            /\ nameLock[arg[t]] = t
            /\ dpLocal[t] # NoPod => Done(dpLocal[t])
            /\ devPods'[arg[t]] = NoPod
            /\ revert'[t] \in {"notcached", "nil", "RevertErr"}
            /\ ret'[t] = (IF revert'[t] = "notcached" THEN "nil" ELSE revert'[t])
            /\ nameLock'[arg[t]] = Free
            /\ mapLock' = Free]_vars

\* Reset has stopped and removed session 1 and returned the error of the reversal.
C13_Witness ==
    \E t \in Callers :
        /\ op[t] = "Reset"
        /\ pc[t] = "returned"
        /\ ret[t] = "RevertErr"
        /\ sPhase[1] = "done"
        /\ sErr[1] = "nil"
        /\ devPods[sName[1]] = NoPod

\* C14: the restart goroutine of a session goes on to call Start exactly when,
\* at its look after Done has fired, the terminal error is LostConnection and
\* the owning context is not cancelled; a restart goroutine that calls Start,
\* sleeps in its backoff or has ended after a Start call belongs to a session
\* that ended with LostConnection.
C14_RestartOnlyLost ==
    /\ [][\A s \in Sessions :
            (pc[Watcher(s)] = "w_done" /\ pc'[Watcher(s)] # "w_done") =>
                /\ Done(s)
                /\ pc'[Watcher(s)] = "start" <=>
                        (sErr[s] = "lost" /\ ~IsDone(tctx[Watcher(s)]))]_vars
    /\ [](\A s \in Sessions :
            pc[Watcher(s)] \in {"start", "s_read", "s_alive", "s_insert", "s_dpstart",
                                "w_ret", "w_sleep", "w_exit_conflict", "w_exit_started"} =>
                Done(s) /\ sErr[s] = "lost")

\* Session 1 ended with LostConnection and was restarted as session 2, which
\* ended cleanly after a Stop and was not restarted.
C14_Witness ==
    /\ sErr[1] = "lost"
    /\ pc[Watcher(1)] = "w_exit_started"
    /\ sPhase[2] = "done"
    /\ sErr[2] = "nil"
    /\ pc[Watcher(2)] = "w_exit_err"
    /\ ~rootDone

\* C15: an attempt whose pod selection finds no pod returns nil, creates no
\* forwarder, logs no "started" confirmation and spawns no watcher, and after
\* it neither the error hooks (member) nor the restart hooks (watcher) run; an
\* attempt whose pod selection fails returns the selection error.
C15_NoPodNoOp ==
    /\ [](\A maps \in MappingSets, npf \in {"err", "ok"} :
            /\ EstablishRet(Establish(FALSE, "none", maps, npf)) = "nil"
            /\ EstablishRet(Establish(FALSE, "err", maps, npf)) = "selectErr")
    /\ [][\A r \in Runners :
            (ppc[r] \in {"attempt", "selecting"} /\ ppc'[r] = "ret") =>
                /\ aCause'[r] = "noPod" =>
                        /\ aRet'[r] = "nil"
                        /\ aFw'[r] = 0 /\ fwGo' = fwGo
                        /\ startedLog' = startedLog
                        /\ \A j \in Forwarders : ppc'[j] # ppc[j] => j = r
                /\ aCause'[r] = "selectErr" => aRet'[r] = "selectErr"]_vars
    /\ [][\A r \in Runners :
            (ppc[r] = "ret" /\ ppc'[r] # "ret" /\ aCause[r] = "noPod") =>
                /\ errorHooks' = errorHooks
                /\ restartHooks' = restartHooks
                /\ r = MemberId => memRet' = "nil"]_vars
    /\ [][(ppc[MemberId] = "ret" /\ ppc'[MemberId] # "ret"
                /\ aCause[MemberId] = "selectErr") =>
            errorHooks' = errorHooks + 1 /\ memRet' \in {"selectErr", "pluginErr"}]_vars

\* The member's attempt found no pod and the member has returned nil with the
\* context live.
C15_Witness ==
    /\ aCause[MemberId] = "noPod"
    /\ ppc[MemberId] = "done"
    /\ memRet = "nil"
    /\ errorHooks = 0
    /\ ~pfCtx
    /\ \A j \in Forwarders : fwGo[j] = "none"

\* C16: once a Stop or Reset of name n has returned and no Start has been
\* called after it (and StartMultiple is not called at all), no session is
\* registered for n.
C16_NoRestartAfterStop ==
    [][\A n \in Names :
        (\E t \in Callers :
            /\ op[t] \in {"Stop", "Reset"} /\ arg[t] = n /\ pc[t] = "returned"
            /\ \A u \in Callers : (u[3] > t[3] /\ pc[u] # "idle") => op[u] # "Start"
            /\ \A u \in Callers : op[u] # "StartMultiple")
        => (devPods'[n] = devPods[n] \/ devPods'[n] = NoPod)]_vars

Holds(t) == {n \in Names : nameLock[n] = t}

\* C17: a thread takes the lock of a name only while it holds no lock, and the
\* registry mutex only while it holds the lock of the name it works on; a
\* thread that is not inside a call holds no lock; every lock that is held is
\* released again and every restart goroutine waiting for the lock of its name
\* gets it (unless the bound on sessions is reached): the calls being finitely
\* many, from some point on no lock is held and no goroutine waits.
C17_DeadlockFree ==
    /\ [][\A t \in Threads :
            /\ \A n \in Names :
                (nameLock'[n] = t /\ nameLock[n] # t) => (mapLock # t /\ Holds(t) = {})
            /\ (mapLock' = t /\ mapLock # t) => Holds(t) = {arg[t]}]_vars
    /\ [](\A t \in Threads :
            pc[t] \notin {"s_read", "s_alive", "s_insert", "s_dpstart", "st_stop", "st_wait"} =>
                Holds(t) = {} /\ mapLock # t)
    /\ <>[](/\ \A n \in Names : nameLock[n] = Free
             /\ mapLock = Free
             /\ \A u \in Threads : pc[u] = "start" => ~Budget)

\* A Stop waits for its session to end, holding the registry mutex, while a
\* Start for the other name holds the lock of that name and needs the mutex.
C17_Witness ==
    \E t \in Callers, u \in Threads :
        /\ pc[t] = "st_wait" /\ mapLock = t
        /\ pc[u] = "s_insert" /\ arg[u] # arg[t]
        /\ nameLock[arg[u]] = u

\* C18: a goroutine that is sending the error of forwarder j on errorChan has a
\* receiver, now or later: the attempt that created j is still in its select, or
\* the watcher of j is in its select.
C18_ErrorReceived ==
    \A j \in Forwarders :
        fwGo[j] = "sending" =>
            \/ \E r \in Runners : ppc[r] = "race" /\ aFw[r] = j
            \/ ppc[j] = "select"

\* Forwarder j is live: ForwardPorts runs, Close was not called and the context,
\* which ends ForwardPorts, is not cancelled.
OpenForwarder(j) == fwGo[j] = "running" /\ ~fwClosed[j] /\ ~pfCtx

\* C19: at most one forwarder of the set is live, and a live forwarder belongs
\* to the attempt that created it, until that attempt has been dealt with by
\* its caller, or to its watcher: a forwarder whose attempt did not reach
\* readiness does not stay live.
C19_OneForwarder ==
    /\ Cardinality({j \in Forwarders : OpenForwarder(j)}) <= 1
    /\ \A j \in Forwarders :
        OpenForwarder(j) =>
            \/ \E r \in Runners : ppc[r] \in {"race", "ret"} /\ aFw[r] = j
            \/ ppc[j] # "off"

\* The write operations the claim names.
LeveledWrites == WriteOps \ FatalOps

\* C20: a leveled write (Debug, Info, Warn, Error, Done and their formatted
\* variants) never waits for the logger's mutex while holding it itself, and it
\* returns with the mutex released, having passed the message to the base
\* logger exactly when the logger's level is at least the message's.
C20_WriteReturns ==
    /\ [](\A g \in Goroutines :
            lgOp[g] \in LeveledWrites => ~(lgPc[g] = "gl_lock" /\ lgM = g))
    /\ [][\A g \in Goroutines :
            (lgOp[g] \in LeveledWrites /\ lgPc[g] # "idle" /\ lgPc'[g] = "idle") =>
                /\ lgM' = "none"
                /\ lgOut'[g] = "written" <=> Passes(lgLevel, MsgLevel(lgOp[g]))]_vars
====
